---- MODULE Spec2Model ----
(***************************************************************************)
(* Model of the Telegram webhook service for Alertmanager                  *)
(* (src/whatsapp-webhook/app.py): template resolution, rendering and the   *)
(* delivery of every alert of a batch to the configured chats.             *)
(*                                                                         *)
(* Python strings that the code inspects character by character are        *)
(* modelled as sequences of one-character strings.  A JSON value is a      *)
(* record [kind, val]: a string, the JSON null, or an absent key.          *)
(***************************************************************************)
EXTENDS Integers, Sequences, FiniteSets, TLC

\* ---------------------------------------------------------------- bounds
\* The longest batch of alerts one request carries.
MaxAlerts == 3
\* The longest list of chat ids the configuration holds.
MaxTargets == 2

\* ------------------------------------------------------- python strings
UpperChars == <<"A", "B", "C", "D", "E", "F", "G", "H", "I", "J", "K", "L", "M",
                "N", "O", "P", "Q", "R", "S", "T", "U", "V", "W", "X", "Y", "Z">>
LowerChars == <<"a", "b", "c", "d", "e", "f", "g", "h", "i", "j", "k", "l", "m",
                "n", "o", "p", "q", "r", "s", "t", "u", "v", "w", "x", "y", "z">>
Digits == <<"0", "1", "2", "3", "4", "5", "6", "7", "8", "9">>
Whitespace == {" ", "\n", "\t", "\r"}

IndexIn(c, chars) == IF \E k \in 1..Len(chars) : chars[k] = c
                     THEN CHOOSE k \in 1..Len(chars) : chars[k] = c
                     ELSE 0

LowerChar(c) == IF IndexIn(c, UpperChars) > 0 THEN LowerChars[IndexIn(c, UpperChars)] ELSE c
UpperChar(c) == IF IndexIn(c, LowerChars) > 0 THEN UpperChars[IndexIn(c, LowerChars)] ELSE c

\* str.lower() and str.upper()
lower(s) == [k \in 1..Len(s) |-> LowerChar(s[k])]
upper(s) == [k \in 1..Len(s) |-> UpperChar(s[k])]

\* s[i:i+len(sub)] == sub
MatchAt(s, i, sub) ==
    /\ i >= 1
    /\ i + Len(sub) - 1 <= Len(s)
    /\ \A k \in 1..Len(sub) : s[i + k - 1] = sub[k]

\* sub in s
Contains(sub, s) == \E i \in 1..(Len(s) + 1) : MatchAt(s, i, sub)

\* The least element of a non-empty set of integers.
Min(set) == CHOOSE m \in set : \A n \in set : m <= n

\* str.replace(old, new): every non-overlapping occurrence, left to right
RECURSIVE ReplaceFrom(_, _, _, _)
ReplaceFrom(s, i, old, new) ==
    LET hits == {p \in i..Len(s) : MatchAt(s, p, old)}
    IN IF Len(old) = 0 \/ hits = {} THEN SubSeq(s, i, Len(s))
       ELSE SubSeq(s, i, Min(hits) - 1) \o new
            \o ReplaceFrom(s, Min(hits) + Len(old), old, new)

\* Deleting a single character is the same as keeping the others.
replace(s, old, new) ==
    IF Len(old) = 1 /\ new = <<>> THEN SelectSeq(s, LAMBDA c : c # old[1])
    ELSE ReplaceFrom(s, 1, old, new)

\* str.strip()
lstrip(s) ==
    LET first == {p \in 1..Len(s) : s[p] \notin Whitespace}
    IN IF first = {} THEN <<>> ELSE SubSeq(s, Min(first), Len(s))

rstrip(s) ==
    LET last == {p \in 1..Len(s) : s[p] \notin Whitespace}
    IN IF last = {} THEN <<>> ELSE SubSeq(s, 1, CHOOSE m \in last : \A n \in last : n <= m)

strip(s) == rstrip(lstrip(s))

\* ----------------------------------------------------------- JSON values
Str(s) == [kind |-> "str", val |-> s]
\* a JSON null: json.loads gives None, which is no str
Null == [kind |-> "null", val |-> <<>>]
\* the key is not in the mapping
Absent == [kind |-> "absent", val |-> <<>>]

IsStr(v) == v.kind = "str"

\* dict.get(key, default)
Get(v, default) == IF v.kind = "absent" THEN default ELSE v

\* str(val) of a JSON value
PyStr(v) == IF v.kind = "str" THEN v.val ELSE <<"N", "o", "n", "e">>

\* bool(val)
Truthy(v) == v.kind = "str" /\ Len(v.val) > 0

\* --------------------------------------------------------- template store
\* get_default_template: defaults['HighTemperature']
TemplateHighTemperature ==
    <<" ", "*", "H", "i", "g", "h", " ", "T", "e", "m", "p", "e", "r", "a", "t", "u", "r", "e",
      " ", "A", "l", "e", "r", "t", "*", "\n", "\n", "*", "A", "l", "e", "r", "t", ":", "*",
      " ", "{", "{", " ", "a", "l", "e", "r", "t", "n", "a", "m", "e", " ", "}", "}", "\n",
      "*", "I", "n", "s", "t", "a", "n", "c", "e", ":", "*", " ", "{", "{", " ", "i", "n", "s",
      "t", "a", "n", "c", "e", " ", "}", "}", "\n", "*", "S", "e", "v", "e", "r", "i", "t",
      "y", ":", "*", " ", "{", "{", " ", "s", "e", "v", "e", "r", "i", "t", "y", " ", "}", "}",
      "\n", "*", "T", "e", "m", "p", "e", "r", "a", "t", "u", "r", "e", ":", "*", " ", "{",
      "{", " ", "v", "a", "l", "u", "e", " ", "}", "}", "°", "C", "\n", "*", "T", "i", "m",
      "e", ":", "*", " ", "{", "{", " ", "s", "t", "a", "r", "t", "s", "A", "t", " ", "}", "}",
      "\n", "\n", "{", "{", " ", "d", "e", "s", "c", "r", "i", "p", "t", "i", "o", "n", " ",
      "}", "}", "\n", "\n", "*", "S", "t", "a", "t", "u", "s", ":", "*", " ", "{", "{", " ",
      "s", "t", "a", "t", "u", "s", " ", "}", "}">>

\* get_default_template: defaults['CPUCoreImbalance']
TemplateCPUCoreImbalance ==
    <<" ", "*", "C", "P", "U", " ", "C", "o", "r", "e", " ", "I", "m", "b", "a", "l", "a", "n",
      "c", "e", " ", "A", "l", "e", "r", "t", "*", "\n", "\n", "*", "A", "l", "e", "r", "t",
      ":", "*", " ", "{", "{", " ", "a", "l", "e", "r", "t", "n", "a", "m", "e", " ", "}", "}",
      "\n", "*", "I", "n", "s", "t", "a", "n", "c", "e", ":", "*", " ", "{", "{", " ", "i",
      "n", "s", "t", "a", "n", "c", "e", " ", "}", "}", "\n", "*", "S", "e", "v", "e", "r",
      "i", "t", "y", ":", "*", " ", "{", "{", " ", "s", "e", "v", "e", "r", "i", "t", "y", " ",
      "}", "}", "\n", "*", "C", "o", "r", "e", " ", "U", "s", "a", "g", "e", ":", "*", " ",
      "{", "{", " ", "v", "a", "l", "u", "e", " ", "}", "}", "%", "\n", "*", "T", "i", "m",
      "e", ":", "*", " ", "{", "{", " ", "s", "t", "a", "r", "t", "s", "A", "t", " ", "}", "}",
      "\n", "\n", "{", "{", " ", "d", "e", "s", "c", "r", "i", "p", "t", "i", "o", "n", " ",
      "}", "}", "\n", "\n", "*", "S", "t", "a", "t", "u", "s", ":", "*", " ", "{", "{", " ",
      "s", "t", "a", "t", "u", "s", " ", "}", "}">>

\* get_default_template: defaults['HighGPUUsage']
TemplateHighGPUUsage ==
    <<" ", "*", "H", "i", "g", "h", " ", "G", "P", "U", " ", "U", "s", "a", "g", "e", " ", "A",
      "l", "e", "r", "t", "*", "\n", "\n", "*", "A", "l", "e", "r", "t", ":", "*", " ", "{",
      "{", " ", "a", "l", "e", "r", "t", "n", "a", "m", "e", " ", "}", "}", "\n", "*", "I",
      "n", "s", "t", "a", "n", "c", "e", ":", "*", " ", "{", "{", " ", "i", "n", "s", "t", "a",
      "n", "c", "e", " ", "}", "}", "\n", "*", "S", "e", "v", "e", "r", "i", "t", "y", ":",
      "*", " ", "{", "{", " ", "s", "e", "v", "e", "r", "i", "t", "y", " ", "}", "}", "\n",
      "*", "G", "P", "U", " ", "U", "s", "a", "g", "e", ":", "*", " ", "{", "{", " ", "v", "a",
      "l", "u", "e", " ", "}", "}", "%", "\n", "*", "T", "i", "m", "e", ":", "*", " ", "{",
      "{", " ", "s", "t", "a", "r", "t", "s", "A", "t", " ", "}", "}", "\n", "\n", "{", "{",
      " ", "d", "e", "s", "c", "r", "i", "p", "t", "i", "o", "n", " ", "}", "}", "\n", "\n",
      "*", "S", "t", "a", "t", "u", "s", ":", "*", " ", "{", "{", " ", "s", "t", "a", "t", "u",
      "s", " ", "}", "}">>

\* get_default_template: defaults['HighRAMUsage']
TemplateHighRAMUsage ==
    <<" ", "*", "H", "i", "g", "h", " ", "R", "A", "M", " ", "U", "s", "a", "g", "e", " ", "A",
      "l", "e", "r", "t", "*", "\n", "\n", "*", "A", "l", "e", "r", "t", ":", "*", " ", "{",
      "{", " ", "a", "l", "e", "r", "t", "n", "a", "m", "e", " ", "}", "}", "\n", "*", "I",
      "n", "s", "t", "a", "n", "c", "e", ":", "*", " ", "{", "{", " ", "i", "n", "s", "t", "a",
      "n", "c", "e", " ", "}", "}", "\n", "*", "S", "e", "v", "e", "r", "i", "t", "y", ":",
      "*", " ", "{", "{", " ", "s", "e", "v", "e", "r", "i", "t", "y", " ", "}", "}", "\n",
      "*", "R", "A", "M", " ", "U", "s", "a", "g", "e", ":", "*", " ", "{", "{", " ", "v", "a",
      "l", "u", "e", " ", "}", "}", "\n", "*", "T", "i", "m", "e", ":", "*", " ", "{", "{",
      " ", "s", "t", "a", "r", "t", "s", "A", "t", " ", "}", "}", "\n", "\n", "{", "{", " ",
      "d", "e", "s", "c", "r", "i", "p", "t", "i", "o", "n", " ", "}", "}", "\n", "\n", "*",
      "S", "t", "a", "t", "u", "s", ":", "*", " ", "{", "{", " ", "s", "t", "a", "t", "u", "s",
      " ", "}", "}">>

\* get_default_template: the generic default
TemplateGeneric ==
    <<"*", "A", "l", "e", "r", "t", ":", " ", "{", "{", " ", "a", "l", "e", "r", "t", "n", "a",
      "m", "e", " ", "}", "}", "*", "\n", "\n", "*", "I", "n", "s", "t", "a", "n", "c", "e",
      ":", "*", " ", "{", "{", " ", "i", "n", "s", "t", "a", "n", "c", "e", " ", "}", "}",
      "\n", "*", "S", "e", "v", "e", "r", "i", "t", "y", ":", "*", " ", "{", "{", " ", "s",
      "e", "v", "e", "r", "i", "t", "y", " ", "}", "}", "\n", "*", "V", "a", "l", "u", "e",
      ":", "*", " ", "{", "{", " ", "v", "a", "l", "u", "e", " ", "}", "}", "\n", "*", "T",
      "i", "m", "e", ":", "*", " ", "{", "{", " ", "s", "t", "a", "r", "t", "s", "A", "t", " ",
      "}", "}", "\n", "\n", "{", "{", " ", "d", "e", "s", "c", "r", "i", "p", "t", "i", "o",
      "n", " ", "}", "}", "\n", "\n", "*", "S", "t", "a", "t", "u", "s", ":", "*", " ", "{",
      "{", " ", "s", "t", "a", "t", "u", "s", " ", "}", "}">>

\* get_default_template(alert_name, alert_type): by alert name first, then
\* by alert type, then the generic default
get_default_template(alert_name, alert_type) ==
    IF alert_name = <<"H", "i", "g", "h", "T", "e", "m", "p", "e", "r", "a", "t", "u", "r",
                      "e">> THEN TemplateHighTemperature
    ELSE IF alert_name = <<"C", "P", "U", "C", "o", "r", "e", "I", "m", "b", "a", "l", "a",
                           "n", "c", "e">> THEN TemplateCPUCoreImbalance
    ELSE IF alert_name = <<"H", "i", "g", "h", "G", "P", "U", "U", "s", "a", "g", "e">> THEN TemplateHighGPUUsage
    ELSE IF alert_name = <<"H", "i", "g", "h", "R", "A", "M", "U", "s", "a", "g", "e">> THEN TemplateHighRAMUsage
    ELSE IF alert_type = <<"t", "e", "m", "p", "e", "r", "a", "t", "u", "r", "e">> THEN TemplateHighTemperature
    ELSE IF alert_type = <<"c", "p", "u">> THEN TemplateCPUCoreImbalance
    ELSE IF alert_type = <<"g", "p", "u">> THEN TemplateHighGPUUsage
    ELSE IF alert_type = <<"r", "a", "m">> THEN TemplateHighRAMUsage
    ELSE TemplateGeneric

\* The name of the external template file of an alert name and type.
TemplateFileName(alert_name, alert_type) ==
    alert_name \o <<"_">> \o alert_type \o <<".", "t", "m", "p", "l">>

\* load_template(alert_name, alert_type) over the template directory `dir`,
\* a set of files [name, readable, content]: the file's content when the
\* file exists and can be read, else the built-in default.
load_template(dir, alert_name, alert_type) ==
    LET path == TemplateFileName(alert_name, alert_type)
        found == {f \in dir : f.name = path}
    IN
    IF found # {} /\ (CHOOSE f \in found : TRUE).readable
    THEN (CHOOSE f \in found : TRUE).content
    ELSE get_default_template(alert_name, alert_type)

\* webhook(): 'Temperature' in alert_name or 'temperature' in alert_name.lower()
NameIsTemperature(alert_name) ==
    Contains(<<"T", "e", "m", "p", "e", "r", "a", "t", "u", "r", "e">>, alert_name) \/ Contains(<<"t", "e", "m", "p", "e", "r", "a", "t", "u", "r", "e">>, lower(alert_name))

\* webhook(): 'CPU' in alert_name or 'cpu' in alert_name.lower() or 'Core' in alert_name
NameIsCpu(alert_name) ==
    \/ Contains(<<"C", "P", "U">>, alert_name)
    \/ Contains(<<"c", "p", "u">>, lower(alert_name))
    \/ Contains(<<"C", "o", "r", "e">>, alert_name)

\* webhook(): 'GPU' in alert_name or 'gpu' in alert_name.lower()
NameIsGpu(alert_name) ==
    Contains(<<"G", "P", "U">>, alert_name) \/ Contains(<<"g", "p", "u">>, lower(alert_name))

\* webhook(): 'RAM' in alert_name or 'ram' in alert_name.lower() or 'Ram' in alert_name
NameIsRam(alert_name) ==
    \/ Contains(<<"R", "A", "M">>, alert_name)
    \/ Contains(<<"r", "a", "m">>, lower(alert_name))
    \/ Contains(<<"R", "a", "m">>, alert_name)

\* webhook(): the template type of an alert, from its alert_type label when
\* that is a non-empty string, else inferred from the alert name.
TemplateType(alert_type_label, alert_name) ==
    IF Truthy(alert_type_label) THEN alert_type_label.val
    ELSE IF NameIsTemperature(alert_name) THEN <<"t", "e", "m", "p", "e", "r", "a", "t", "u", "r", "e">>
    ELSE IF NameIsCpu(alert_name) THEN <<"c", "p", "u">>
    ELSE IF NameIsGpu(alert_name) THEN <<"g", "p", "u">>
    ELSE IF NameIsRam(alert_name) THEN <<"r", "a", "m">>
    ELSE <<"d", "e", "f", "a", "u", "l", "t">>

\* ------------------------------------------------------------- rendering
IsDigit(c) == IndexIn(c, Digits) > 0
DigitSet == {Digits[k] : k \in 1..Len(Digits)}

\* The last index of the longest run of characters of `set` that starts at
\* p, and p - 1 when there is none.
RunEnd(s, p, set) ==
    Min({q \in p..Len(s) : s[q] \notin set} \cup {Len(s) + 1}) - 1

\* render_template: the units of (?:°C|%|MHz|MB), in the order of the pattern
Units == <<<<"°", "C">>, <<"%">>, <<"M", "H", "z">>, <<"M", "B">>>>

\* The text the unit alternation matches at q under re.IGNORECASE, <<>> when
\* none does.
UnitAt(s, q) ==
    LET hits == {u \in 1..Len(Units) :
                    /\ q + Len(Units[u]) - 1 <= Len(s)
                    /\ lower(SubSeq(s, q, q + Len(Units[u]) - 1)) = lower(Units[u])}
    IN IF hits = {} THEN <<>>
       ELSE LET u == Min(hits)
            IN SubSeq(s, q, q + Len(Units[u]) - 1)

NoMatch == [found |-> FALSE, number |-> <<>>, unit |-> <<>>]

\* (\d+(?:\.\d+)?)\s*(°C|%|MHz|MB) tried at position p: the digits and the
\* optional fraction are greedy, and no shorter number can be followed by a unit.
ValueMatchAt(s, p) ==
    LET e1 == RunEnd(s, p, DigitSet)
        hasFrac == e1 + 2 <= Len(s) /\ s[e1 + 1] = "." /\ IsDigit(s[e1 + 2])
        e == IF hasFrac THEN RunEnd(s, e1 + 2, DigitSet) ELSE e1
        q == RunEnd(s, e + 1, Whitespace) + 1
        u == UnitAt(s, q)
    IN IF e1 >= p /\ u # <<>>
       THEN [found |-> TRUE, number |-> SubSeq(s, p, e), unit |-> u]
       ELSE NoMatch

\* re.search of the value pattern: the leftmost match
SearchValue(s) ==
    LET starts == {p \in 1..Len(s) : ValueMatchAt(s, p).found}
    IN IF starts = {} THEN NoMatch
       ELSE ValueMatchAt(s, Min(starts))

\* A value taken from the description before annotations['value'] is looked at.
ExtractValue_DescriptionFirst(annotations, description) ==
    LET m == SearchValue(description)
    IN IF m.found THEN m.number \o m.unit
       ELSE IF annotations.value.kind # "absent" THEN PyStr(annotations.value)
       ELSE <<"N", "/", "A">>

\* render_template: the value, from annotations['value'] when the key is
\* there, else from the first number with a unit in the description, else N/A
ExtractValue(annotations, description) ==
    IF annotations.value.kind # "absent" THEN PyStr(annotations.value)
    ELSE LET m == SearchValue(description)
         IN IF m.found THEN m.number \o m.unit ELSE <<"N", "/", "A">>

\* The number a run of digits writes.
RECURSIVE ToInt(_)
ToInt(s) == IF s = <<>> THEN 0
            ELSE 10 * ToInt(SubSeq(s, 1, Len(s) - 1)) + (IndexIn(s[Len(s)], Digits) - 1)

AllDigits(s, from, to) == to <= Len(s) /\ \A k \in from..to : IsDigit(s[k])

IsLeap(y) == (y % 4 = 0 /\ y % 100 # 0) \/ y % 400 = 0
DaysInMonth(y, m) ==
    IF m = 2 THEN (IF IsLeap(y) THEN 29 ELSE 28)
    ELSE IF m \in {4, 6, 9, 11} THEN 30 ELSE 31

\* YYYY-MM-DD?HH:MM:SS at the head of s, with every field in its range
IsoHead(s) ==
    /\ Len(s) >= 19
    /\ AllDigits(s, 1, 4) /\ s[5] = "-" /\ AllDigits(s, 6, 7) /\ s[8] = "-"
    /\ AllDigits(s, 9, 10)
    /\ AllDigits(s, 12, 13) /\ s[14] = ":" /\ AllDigits(s, 15, 16) /\ s[17] = ":"
    /\ AllDigits(s, 18, 19)
    /\ ToInt(SubSeq(s, 1, 4)) >= 1
    /\ ToInt(SubSeq(s, 6, 7)) \in 1..12
    /\ ToInt(SubSeq(s, 9, 10)) \in 1..DaysInMonth(ToInt(SubSeq(s, 1, 4)), ToInt(SubSeq(s, 6, 7)))
    /\ ToInt(SubSeq(s, 12, 13)) \in 0..23
    /\ ToInt(SubSeq(s, 15, 16)) \in 0..59
    /\ ToInt(SubSeq(s, 18, 19)) \in 0..59

\* nothing, or a UTC offset +HH:MM / -HH:MM, from position p to the end
IsoOffset(s, p) ==
    \/ p = Len(s) + 1
    \/ /\ Len(s) = p + 5
       /\ s[p] \in {"+", "-"}
       /\ AllDigits(s, p + 1, p + 2) /\ s[p + 3] = ":" /\ AllDigits(s, p + 4, p + 5)
       /\ ToInt(SubSeq(s, p + 1, p + 2)) \in 0..23
       /\ ToInt(SubSeq(s, p + 4, p + 5)) \in 0..59

\* The number of fraction digits of the seconds of s (0: no fraction; -1: a
\* point with no digit after it).
FractionDigits(s) ==
    IF Len(s) >= 20 /\ s[20] = "."
    THEN (IF RunEnd(s, 21, DigitSet) >= 21 THEN RunEnd(s, 21, DigitSet) - 20 ELSE -1)
    ELSE 0

\* datetime.fromisoformat(s): "yes" when every Python 3 version parses s,
\* "some" when only the versions from 3.11 on do (a fraction that is not of 3
\* or 6 digits, or a point with no digit), "no" otherwise.
FromIsoFormat(s) ==
    IF ~IsoHead(s) THEN "no"
    ELSE LET n == FractionDigits(s)
             rest == IF n = 0 THEN 20 ELSE IF n = -1 THEN 21 ELSE 21 + n
         IN IF ~IsoOffset(s, rest) THEN "no"
            ELSE IF n \in {0, 3, 6} THEN "yes"
            ELSE "some"

\* dt.strftime('%Y-%m-%d %H:%M:%S UTC')
StrfTime(s) == SubSeq(s, 1, 10) \o <<" ">> \o SubSeq(s, 12, 19) \o <<" ", "U", "T", "C">>

\* render_template: the displayed time, every text the try/except may give.
\* A startsAt that is no str has no replace(): the except keeps it as it is.
FormattedTimes(starts_at) ==
    IF ~IsStr(starts_at) THEN {PyStr(starts_at)}
    ELSE LET iso == replace(starts_at.val, <<"Z">>, <<"+", "0", "0", ":", "0", "0">>)
             parsed == FromIsoFormat(iso)
         IN (IF parsed \in {"yes", "some"} THEN {StrfTime(iso)} ELSE {})
            \cup (IF parsed \in {"no", "some"} THEN {starts_at.val} ELSE {})

\* A token that must close on the line it opens on.
TokenEnd_OneLine(s, i) ==
    IF ~MatchAt(s, i, <<"{", "{">>) THEN 0
    ELSE LET k == Min({q \in (i + 2)..Len(s) : s[q] \in {"}", "\n"}} \cup {Len(s) + 1})
         IN IF k >= i + 3 /\ MatchAt(s, k, <<"}", "}">>) THEN k + 1 ELSE 0

\* A token \{\{[^}]+\}\} starts at i: "{{" is there, at least one character
\* that is no "}" follows, and the first "}" after them is followed by another.
\* TokenEnd is the index of the token's last character, 0 when none starts at i.
TokenEnd(s, i) ==
    IF ~MatchAt(s, i, <<"{", "{">>) THEN 0
    ELSE LET k == Min({q \in (i + 2)..Len(s) : s[q] = "}"} \cup {Len(s) + 1})
         IN IF k >= i + 3 /\ MatchAt(s, k, <<"}", "}">>) THEN k + 1 ELSE 0

\* re.sub(r'\{\{[^}]+\}\}', 'N/A', message): from i on, leftmost tokens first
RECURSIVE SubTokensFrom(_, _)
SubTokensFrom(s, i) ==
    LET hits == {p \in i..Len(s) : TokenEnd(s, p) > 0}
    IN IF hits = {} THEN SubSeq(s, i, Len(s))
       ELSE SubSeq(s, i, Min(hits) - 1) \o <<"N", "/", "A">>
            \o SubTokensFrom(s, TokenEnd(s, Min(hits)) + 1)

\* A description that prefers the summary.
Description_SummaryFirst(annotations) ==
    Get(annotations.summary, Get(annotations.description, Str(<<"N", "o", " ", "d", "e", "s", "c", "r", "i", "p", "t", "i",
                                                                "o", "n">>)))

\* render_template: the description
Description(annotations) ==
    Get(annotations.description, Get(annotations.summary, Str(<<"N", "o", " ", "d", "e", "s", "c", "r", "i", "p", "t", "i",
                                                                "o", "n">>)))

\* render_template raises (TypeError, AttributeError) when the description,
\* the severity or the status is no str: re.search and upper() need one.
RenderRaises(alert) ==
    \/ ~IsStr(Description(alert.annotations))
    \/ ~IsStr(Get(alert.labels.severity, Str(<<"u", "n", "k", "n", "o", "w", "n">>)))
    \/ ~IsStr(Get(alert.status, Str(<<"u", "n", "k", "n", "o", "w", "n">>)))

\* render_template: the replacements, in the order of the dict
Replacements(alert, formatted_time) ==
    LET labels == alert.labels
        annotations == alert.annotations
        description == Description(annotations).val
    IN << <<<<"{", "{", " ", "a", "l", "e", "r", "t", "n", "a", "m", "e", " ", "}", "}">>, PyStr(Get(labels.alertname, Str(<<"U", "n", "k", "n", "o", "w", "n">>)))>>,
          <<<<"{", "{", " ", "i", "n", "s", "t", "a", "n", "c", "e", " ", "}", "}">>,
            PyStr(Get(labels.instance, Get(labels.exported_instance, Str(<<"U", "n", "k", "n", "o", "w", "n">>))))>>,
          <<<<"{", "{", " ", "s", "e", "v", "e", "r", "i", "t", "y", " ", "}", "}">>, upper(Get(labels.severity, Str(<<"u", "n", "k", "n", "o", "w", "n">>)).val)>>,
          <<<<"{", "{", " ", "v", "a", "l", "u", "e", " ", "}", "}">>, ExtractValue(annotations, description)>>,
          <<<<"{", "{", " ", "s", "t", "a", "r", "t", "s", "A", "t", " ", "}", "}">>, formatted_time>>,
          <<<<"{", "{", " ", "d", "e", "s", "c", "r", "i", "p", "t", "i", "o", "n", " ", "}",
              "}">>, description>>,
          <<<<"{", "{", " ", "s", "u", "m", "m", "a", "r", "y", " ", "}", "}">>, PyStr(Get(annotations.summary, Str(<<>>)))>>,
          <<<<"{", "{", " ", "s", "t", "a", "t", "u", "s", " ", "}", "}">>, upper(Get(alert.status, Str(<<"u", "n", "k", "n", "o", "w", "n">>)).val)>> >>

\* for key, val in replacements.items(): message = message.replace(key, val)
RECURSIVE ReplaceAll(_, _, _)
ReplaceAll(message, reps, n) ==
    IF n > Len(reps) THEN message
    ELSE ReplaceAll(replace(message, reps[n][1], reps[n][2]), reps, n + 1)

\* render_template(template, alert), for an alert it does not raise on: the
\* messages it may return (one for each displayed time), `now` being the
\* clock's datetime.utcnow().isoformat().
render_template(template, alert, now) ==
    {strip(SubTokensFrom(ReplaceAll(template, Replacements(alert, t), 1), 1)) :
        t \in FormattedTimes(Get(alert.startsAt, Str(now)))}

\* ---------------------------------------------------------- configuration
\* str.split(','): the pieces of s between the commas
RECURSIVE SplitFrom(_, _)
SplitFrom(s, i) ==
    LET commas == {p \in i..Len(s) : s[p] = ","}
    IN IF commas = {} THEN <<SubSeq(s, i, Len(s))>>
       ELSE <<SubSeq(s, i, Min(commas) - 1)>> \o SplitFrom(s, Min(commas) + 1)

\* [cid.strip() for cid in pieces if cid.strip()]
StripNonEmpty(pieces) ==
    LET stripped == [k \in 1..Len(pieces) |-> strip(pieces[k])]
    IN SelectSeq(stripped, LAMBDA cid : Len(cid) > 0)

\* TELEGRAM_ENABLED = os.getenv('TELEGRAM_ENABLED', 'true').lower() == 'true'
ParseEnabled(env) == lower(Get(env.TELEGRAM_ENABLED, Str(<<"t", "r", "u", "e">>)).val) = <<"t", "r", "u", "e">>

\* TELEGRAM_BOT_TOKEN = os.getenv('TELEGRAM_BOT_TOKEN', '')
ParseBotToken(env) == Get(env.TELEGRAM_BOT_TOKEN, Str(<<>>)).val

\* TELEGRAM_CHAT_IDS = [...] if os.getenv('TELEGRAM_CHAT_IDS') else []
ParseChatIds(env) ==
    IF Truthy(env.TELEGRAM_CHAT_IDS)
    THEN StripNonEmpty(SplitFrom(env.TELEGRAM_CHAT_IDS.val, 1))
    ELSE <<>>

\* webhook(): os.getenv('SEND_RESOLVED_ALERTS', 'false').lower() != 'true'
OnlyFiring(env) == lower(Get(env.SEND_RESOLVED_ALERTS, Str(<<"f", "a", "l", "s", "e">>)).val) # <<"t", "r", "u", "e">>

\* webhook(): skip resolved alerts if configured to only send firing
SkipAlert(status, env) == status = Str(<<"r", "e", "s", "o", "l", "v", "e", "d">>) /\ OnlyFiring(env)

\* send_telegram_message: the checks before the loop over the chat ids; the
\* call returns False without a request when one of them fails.
ConfigGap(enabled, bot_token, chat_ids) ==
    \/ ~enabled
    \/ Len(bot_token) = 0
    \/ Len(chat_ids) = 0

\* ------------------------------------------------------------ the provider
\* requests.post(url, json=data, timeout=10)
RequestTimeout == 10

\* What one requests.post gives: an exception of requests (error), or a
\* response with a status code and a JSON body {ok, description}.
Answer(error, status_code, ok, description) ==
    [error |-> error, status_code |-> status_code, ok |-> ok, description |-> description]

AnswerSent == Answer("none", 200, TRUE, Absent)
AnswerNetworkError == Answer("ConnectionError", 0, FALSE, Absent)
AnswerTimeout == Answer("Timeout", 0, FALSE, Absent)
AnswerHttpError == Answer("none", 500, FALSE, Str(<<"I", "n", "t", "e", "r", "n", "a", "l", " ", "S", "e", "r",
                                                    "v", "e", "r", " ", "E", "r", "r", "o", "r">>))
AnswerHttpParseError ==
    Answer("none", 400, FALSE, Str(<<"B", "a", "d", " ", "R", "e", "q", "u", "e", "s", "t", ":",
                                     " ", "c", "a", "n", "'", "t", " ", "p", "a", "r", "s", "e",
                                     " ", "e", "n", "t", "i", "t", "i", "e", "s">>))
AnswerApiError == Answer("none", 200, FALSE, Str(<<"F", "o", "r", "b", "i", "d", "d", "e", "n", ":", " ", "b",
                                                   "o", "t", " ", "w", "a", "s", " ", "b", "l", "o", "c", "k",
                                                   "e", "d", " ", "b", "y", " ", "t", "h", "e", " ", "u", "s",
                                                   "e", "r">>))
AnswerApiParseError ==
    Answer("none", 200, FALSE, Str(<<"B", "a", "d", " ", "R", "e", "q", "u", "e", "s", "t", ":",
                                     " ", "C", "a", "n", "'", "t", " ", "P", "a", "r", "s", "e",
                                     " ", "e", "n", "t", "i", "t", "i", "e", "s">>))

Answers == {AnswerSent, AnswerNetworkError, AnswerTimeout, AnswerHttpError,
            AnswerHttpParseError, AnswerApiError, AnswerApiParseError}

\* requests.post raised, or response.raise_for_status() does (a 4xx or 5xx)
PostRaises(answer) ==
    \/ answer.error # "none"
    \/ answer.status_code \in 400..599

\* send_telegram_message: 'parse' in result.get('description', '').lower()
MentionsParse(answer) ==
    Contains(<<"p", "a", "r", "s", "e">>, lower(Get(answer.description, Str(<<>>)).val))

\* A first request whose every failure leads to the request without parse_mode.
FirstOutcome_RetryOnAnyError(answer) ==
    IF ~PostRaises(answer) /\ answer.ok THEN "sent" ELSE "retry"

\* send_telegram_message: what the first request to a chat leads to:
\* "sent", "failed" (success = False), or "retry" (the request without parse_mode)
FirstOutcome(answer) ==
    IF PostRaises(answer) THEN "failed"
    ELSE IF answer.ok THEN "sent"
    ELSE IF MentionsParse(answer) THEN "retry"
    ELSE "failed"

\* send_telegram_message: what the request without parse_mode leads to
RetryOutcome(answer) ==
    IF PostRaises(answer) THEN "failed"
    ELSE IF answer.ok THEN "sent"
    ELSE "failed"

\* send_telegram_message: message.replace('*', '').replace('_', '')
PlainText(message) == replace(replace(message, <<"*">>, <<>>), <<"_">>, <<>>)

\* A first request that always goes to the chat id 1001.
MarkdownData_FirstChat(chat_id, message) ==
    [chat_id |-> <<"1", "0", "0", "1">>, text |-> message, parse_mode |-> "Markdown",
     timeout |-> RequestTimeout]

\* send_telegram_message: the data of the first request to a chat
MarkdownData(chat_id, message) ==
    [chat_id |-> strip(chat_id), text |-> message, parse_mode |-> "Markdown",
     timeout |-> RequestTimeout]

\* send_telegram_message: data_no_parse
PlainData(chat_id, message) ==
    [chat_id |-> strip(chat_id), text |-> PlainText(message), parse_mode |-> "none",
     timeout |-> RequestTimeout]

\* ------------------------------------------------------------------ inputs
\* The chat ids of the environments: "1001", "1002", ...
ChatId(k) == <<"1", "0", "0", Digits[k + 1]>>

\* The value of TELEGRAM_CHAT_IDS that lists the first n chat ids: "1001, 1002"
RECURSIVE JoinIds(_)
JoinIds(n) == IF n = 0 THEN <<>>
              ELSE IF n = 1 THEN ChatId(1)
              ELSE JoinIds(n - 1) \o <<",", " ">> \o ChatId(n)

Env(enabled, token, chat_ids, send_resolved) ==
    [TELEGRAM_ENABLED |-> enabled, TELEGRAM_BOT_TOKEN |-> token,
     TELEGRAM_CHAT_IDS |-> chat_ids, SEND_RESOLVED_ALERTS |-> send_resolved]

BotToken == Str(<<"1", "2", "3", "4", "5", "6", ":", "A", "B", "C", "-", "D", "E", "F">>)

\* The environments the process may start in: the complete ones, with one
\* chat id or more and either setting of SEND_RESOLVED_ALERTS, and the ones
\* with a gap: disabled, no token, no chat ids.
Environments ==
    {Env(Absent, BotToken, Str(JoinIds(n)), send_resolved) :
        n \in 1..MaxTargets, send_resolved \in {Absent, Str(<<"T", "r", "u", "e">>)}}
    \cup {Env(Str(<<"f", "a", "l", "s", "e">>), BotToken, Str(JoinIds(MaxTargets)), Absent),
          Env(Absent, Absent, Str(JoinIds(MaxTargets)), Str(<<"f", "a", "l", "s", "e">>)),
          Env(Str(<<"T", "r", "u", "e">>), BotToken, Absent, Absent),
          Env(Absent, BotToken, Str(<<>>), Absent)}

Labels(alertname, instance, exported_instance, severity, alert_type) ==
    [alertname |-> alertname, instance |-> instance,
     exported_instance |-> exported_instance, severity |-> severity,
     alert_type |-> alert_type]

Annotations(description, summary, value) ==
    [description |-> description, summary |-> summary, value |-> value]

Alert(status, startsAt, labels, annotations) ==
    [status |-> status, startsAt |-> startsAt, labels |-> labels,
     annotations |-> annotations]

AlertFiring ==
    Alert(Str(<<"f", "i", "r", "i", "n", "g">>), Str(<<"2", "0", "2", "4", "-", "0", "3", "-", "0", "1", "T", "1",
                                 "2", ":", "0", "0", ":", "0", "0", ".", "1", "2", "3", "4",
                                 "5", "6", "Z">>),
          Labels(Str(<<"H", "i", "g", "h", "T", "e", "m", "p", "e", "r", "a", "t", "u", "r",
                       "e">>), Str(<<"n", "o", "d", "e", "_", "1">>), Absent, Str(<<"c", "r", "i", "t", "i", "c", "a", "l">>), Absent),
          Annotations(Str(<<"t", "e", "m", "p", "e", "r", "a", "t", "u", "r", "e", " ", "i",
                            "s", " ", "8", "5", "°", "C">>), Absent, Absent))

AlertResolved ==
    Alert(Str(<<"r", "e", "s", "o", "l", "v", "e", "d">>), Str(<<"n", "o", "t", "-", "a", "-", "d", "a", "t", "e">>),
          Labels(Str(<<"c", "o", "r", "e", "_", "i", "m", "b", "a", "l", "a", "n", "c", "e">>), Absent, Str(<<"n", "o", "d", "e", "_", "2">>), Str(<<"w", "a", "r", "n", "i", "n", "g">>), Absent),
          Annotations(Absent, Str(<<"c", "o", "r", "e", " ", "l", "o", "a", "d", " ", "b", "a",
                                    "c", "k", " ", "a", "t", " ", "4", "0", " ", "%">>), Absent))

\* an alert whose status is the JSON null
AlertNullStatus ==
    Alert(Null, Absent,
          Labels(Str(<<"D", "i", "s", "k", "F", "u", "l", "l">>), Absent, Absent, Absent, Absent),
          Annotations(Absent, Absent, Str(<<"9", "7">>)))

\* The alert records a batch is made of.
AlertSamples == {AlertFiring, AlertResolved, AlertNullStatus}

\* The batches of at most MaxAlerts alerts.
Batches == UNION {[1..n -> AlertSamples] : n \in 0..MaxAlerts}

\* The value a JSON body parses to: None (the body "null"), a list, or an
\* object {status, alerts}.
JsonNone == [kind |-> "none"]
JsonList == [kind |-> "list"]
JsonObject(status, alerts) == [kind |-> "object", status |-> status, alerts |-> alerts]

\* What a client posts: no JSON body at all, a body that does not parse, or a
\* body that parses to a value.
Request(body, json) == [body |-> body, json |-> json]

\* The requests: no body, an unparsable one, "null", a list, the empty
\* object, an object with no alerts, and the objects with a batch of alerts.
Requests ==
    {Request("missing", JsonNone), Request("unparsable", JsonNone)}
    \cup {Request("json", json) :
            json \in {JsonNone, JsonList, JsonObject(Absent, Absent),
                      JsonObject(Str(<<"f", "i", "r", "i", "n", "g">>), Absent)}
                     \cup {JsonObject(Str(status), Str(batch)) :
                             status \in {<<"f", "i", "r", "i", "n", "g">>, <<"r", "e", "s", "o", "l", "v", "e", "d">>}, batch \in Batches}}

GetJsonRaises == [kind |-> "raises"]

\* request.get_json(): what it may give for a request.  A body that does not
\* parse raises werkzeug's BadRequest.  With no JSON body it returns None or
\* raises (415 UnsupportedMediaType, BadRequest), by the version of Flask and
\* the content type of the request.
get_json(request) ==
    IF request.body = "unparsable" THEN {GetJsonRaises}
    ELSE IF request.body = "missing" THEN {JsonNone, GetJsonRaises}
    ELSE {request.json}

\* bool(data) of a parsed body: None and the empty object are falsy
DataIsFalsy(data) ==
    \/ data.kind = "none"
    \/ data.kind = "object" /\ data.status = Absent /\ data.alerts = Absent

\* The files of the template directory: none, or one template for core_imbalance.
TemplateDirs ==
    {{}, {[name |-> <<"c", "o", "r", "e", "_", "i", "m", "b", "a", "l", "a", "n", "c", "e",
                      "_", "d", "e", "f", "a", "u", "l", "t", ".", "t", "m", "p", "l">>, readable |-> TRUE,
           content |-> <<"*", "C", "o", "r", "e", "s", "*", " ", "{", "{", " ", "a", "l", "e",
                         "r", "t", "n", "a", "m", "e", " ", "}", "}", " ", "{", "{", " ", "c",
                         "o", "r", "e", " ", "}", "}", " ", "{", "{", " ", "v", "a", "l", "u",
                         "e", " ", "}", "}", "\n">>]}}

\* datetime.utcnow().isoformat() at the time of the request
Clock == {<<"2", "0", "2", "4", "-", "0", "3", "-", "0", "1", "T", "1", "2", ":", "0", "0",
            ":", "0", "5", ".", "0", "0", "0", "2", "5", "0">>}

\* -------------------------------------------------------------------- state
VARIABLES
    start_environ,        \* the environment the process was started with
    environ,              \* os.environ
    TELEGRAM_ENABLED,     \* the module's configuration, read at start
    TELEGRAM_BOT_TOKEN,
    TELEGRAM_CHAT_IDS,
    template_dir,         \* the files under TEMPLATE_DIR
    pc,                   \* where the call of webhook() is
    body,                 \* the kind of body the request came with
    data,                 \* webhook(): data = request.get_json()
    alert_index,          \* webhook(): the alert the loop is at
    template,             \* webhook(): the template of that alert
    message,              \* webhook(): the rendered message of that alert
    chat_index,           \* send_telegram_message: the chat id the loop is at
    success,              \* send_telegram_message: success, and what it returned
    attempts,             \* the requests made for that alert and their answers, in order
    results,              \* per alert of the batch: "skipped", "sent", "failed"
    response,             \* what webhook() returned
    other                 \* the local variables of a second call of webhook(), not running

vars == <<start_environ, environ, TELEGRAM_ENABLED, TELEGRAM_BOT_TOKEN, TELEGRAM_CHAT_IDS,
          template_dir, pc, body, data, alert_index, template, message, chat_index,
          success, attempts, results, response, other>>

config == <<start_environ, environ, TELEGRAM_ENABLED, TELEGRAM_BOT_TOKEN, TELEGRAM_CHAT_IDS,
            template_dir, other>>

\* webhook(): alerts = data.get('alerts', [])
alerts == IF data.kind = "object" THEN Get(data.alerts, Str(<<>>)).val ELSE <<>>

\* webhook(): status = data.get('status', 'unknown')
status == IF data.kind = "object" THEN Get(data.status, Str(<<"u", "n", "k", "n", "o", "w", "n">>)) ELSE Absent

NoResponse == [code |-> 0]

\* The local variables of a call of webhook() that has not begun.
IdleLocals ==
    [pc |-> "idle", body |-> "pending", data |-> JsonNone, alert_index |-> 0,
     template |-> <<>>, message |-> <<>>, chat_index |-> 0, success |-> TRUE,
     attempts |-> <<>>, results |-> <<>>, response |-> NoResponse]

\* jsonify({'error': ...}), code
ErrorResponse(code) == [code |-> code, body |-> "error"]

\* jsonify({'status': 'processed', 'alerts': len(alerts)}), 200
ProcessedResponse(n) == [code |-> 200, body |-> "processed", alerts |-> n]

Init ==
    /\ start_environ \in Environments
    /\ environ = start_environ
    /\ TELEGRAM_ENABLED = ParseEnabled(environ)
    /\ TELEGRAM_BOT_TOKEN = ParseBotToken(environ)
    /\ TELEGRAM_CHAT_IDS = ParseChatIds(environ)
    /\ template_dir \in TemplateDirs
    /\ pc = "idle"
    /\ body = "pending"
    /\ data = JsonNone
    /\ alert_index = 0
    /\ template = <<>>
    /\ message = <<>>
    /\ chat_index = 0
    /\ success = TRUE
    /\ attempts = <<>>
    /\ results = <<>>
    /\ response = NoResponse
    /\ other = IdleLocals

\* webhook() fails: the except clause answers 500
Fail ==
    /\ pc' = "done"
    /\ response' = ErrorResponse(500)

\* webhook(), up to the loop over the alerts: the body is read; a falsy body
\* is answered 400, and whatever raises is answered 500 by the except clause.
webhook_begin(request, json) ==
    /\ pc = "idle"
    /\ body' = request.body
    /\ IF json.kind = "raises"
       THEN Fail /\ UNCHANGED <<data, alert_index>>
       ELSE IF DataIsFalsy(json)
       THEN /\ pc' = "done"
            /\ response' = ErrorResponse(400)
            /\ data' = json
            /\ UNCHANGED alert_index
       ELSE IF json.kind # "object"
       THEN Fail /\ data' = json /\ UNCHANGED alert_index
       ELSE /\ data' = json
            /\ alert_index' = 1
            /\ pc' = "loop"
            /\ UNCHANGED response
    /\ UNCHANGED <<config, template, message, chat_index, success, attempts, results>>

\* A send_telegram_message that returns True whatever happened.
Returns_AlwaysTrue(sent) ==
    /\ success' = TRUE
    /\ pc' = "returned"

\* send_telegram_message returns `sent` for the alert the loop is at
Returns(sent) ==
    /\ success' = sent
    /\ pc' = "returned"

\* webhook(): processing this alert raises before a message is rendered: the
\* keyword tests need an alert name that is a str, and so does render_template
\* for the fields it matches or upper-cases.
AlertRaises(alert) ==
    \/ /\ ~Truthy(Get(alert.labels.alert_type, Str(<<>>)))
       /\ ~IsStr(Get(alert.labels.alertname, Str(<<"U", "n", "k", "n", "o", "w", "n">>)))
    \/ RenderRaises(alert)

\* webhook(): template = load_template(alert_name, template_type)
ResolveTemplate(dir, alert) ==
    LET alert_name == PyStr(Get(alert.labels.alertname, Str(<<"U", "n", "k", "n", "o", "w", "n">>)))
        alert_type_label == Get(alert.labels.alert_type, Str(<<>>))
    IN load_template(dir, alert_name, TemplateType(alert_type_label, alert_name))

\* webhook(): one turn of the loop over the alerts, up to the first request
\* of send_telegram_message.
webhook_alert ==
    /\ pc = "loop"
    /\ alert_index <= Len(alerts)
    /\ LET alert == alerts[alert_index] IN
       IF SkipAlert(status, environ)
       THEN /\ results' = Append(results, "skipped")
            /\ alert_index' = alert_index + 1
            /\ UNCHANGED <<pc, template, message, chat_index, success, response>>
       ELSE IF AlertRaises(alert)
       THEN /\ Fail
            /\ UNCHANGED <<alert_index, template, message, chat_index, success, results>>
       ELSE \E now \in Clock :
            \E tmpl \in {ResolveTemplate(template_dir, alert)} :
            \E text \in render_template(tmpl, alert, now) :
                /\ template' = tmpl
                /\ message' = text
                /\ IF ConfigGap(TELEGRAM_ENABLED, TELEGRAM_BOT_TOKEN, TELEGRAM_CHAT_IDS)
                   THEN /\ Returns(FALSE)
                        /\ UNCHANGED <<alert_index, chat_index, results, response>>
                   ELSE /\ pc' = "post"
                        /\ chat_index' = 1
                        /\ success' = TRUE
                        /\ UNCHANGED <<alert_index, results, response>>
    /\ UNCHANGED <<config, body, data, attempts>>

\* A loop that stops at the first chat id whose delivery failed.
NextChat_StopOnFailure(ok) ==
    /\ IF chat_index < Len(TELEGRAM_CHAT_IDS) /\ ok
       THEN /\ chat_index' = chat_index + 1
            /\ success' = ok
            /\ pc' = "post"
       ELSE /\ Returns(ok)
            /\ UNCHANGED chat_index
    /\ UNCHANGED <<alert_index, results>>

\* send_telegram_message: the loop goes on to the next chat id, and the call
\* returns after the last one.
NextChat(ok) ==
    /\ IF chat_index < Len(TELEGRAM_CHAT_IDS)
       THEN /\ chat_index' = chat_index + 1
            /\ success' = ok
            /\ pc' = "post"
       ELSE /\ Returns(ok)
            /\ UNCHANGED chat_index
    /\ UNCHANGED <<alert_index, results>>

\* send_telegram_message: the request with parse_mode Markdown to the chat
\* the loop is at, and what its answer leads to.
post_markdown(answer) ==
    /\ pc = "post"
    /\ attempts' = Append(attempts,
            [data |-> MarkdownData(TELEGRAM_CHAT_IDS[chat_index], message),
             answer |-> answer])
    /\ CASE FirstOutcome(answer) = "sent" -> NextChat(success)
         [] FirstOutcome(answer) = "failed" -> NextChat(FALSE)
         [] FirstOutcome(answer) = "retry" ->
                /\ pc' = "post_plain"
                /\ UNCHANGED <<alert_index, chat_index, success, results>>
    /\ UNCHANGED <<config, body, data, template, message, response>>

\* send_telegram_message: the request without parse_mode, after the first
\* was rejected with a description that mentions parsing.
post_plain(answer) ==
    /\ pc = "post_plain"
    /\ attempts' = Append(attempts,
            [data |-> PlainData(TELEGRAM_CHAT_IDS[chat_index], message),
             answer |-> answer])
    /\ IF RetryOutcome(answer) = "sent" THEN NextChat(success) ELSE NextChat(FALSE)
    /\ UNCHANGED <<config, body, data, template, message, response>>

\* webhook(): send_telegram_message has returned; the result is logged and
\* the loop goes on to the next alert.
webhook_logs ==
    /\ pc = "returned"
    /\ results' = Append(results, IF success THEN "sent" ELSE "failed")
    /\ alert_index' = alert_index + 1
    /\ attempts' = <<>>
    /\ pc' = "loop"
    /\ UNCHANGED <<config, body, data, template, message, chat_index, success, response>>

\* webhook(): after the loop, the response
webhook_return ==
    /\ pc = "loop"
    /\ alert_index > Len(alerts)
    /\ response' = ProcessedResponse(Len(alerts))
    /\ pc' = "done"
    /\ UNCHANGED <<config, body, data, alert_index, template, message, chat_index,
                   success, attempts, results>>

Next ==
    \/ pc = "idle" /\ \E request \in Requests : \E json \in get_json(request) :
                        webhook_begin(request, json)
    \/ webhook_alert
    \/ pc = "post" /\ \E answer \in Answers : post_markdown(answer)
    \/ pc = "post_plain" /\ \E answer \in Answers : post_plain(answer)
    \/ webhook_logs
    \/ webhook_return

Spec == Init /\ [][Next]_vars

\* ------------------------------------------------- a changing environment
\* os.environ changes while the process runs, before a batch or between two
\* alerts of one: SEND_RESOLVED_ALERTS is set to `value` or, with Absent,
\* deleted.  The module's TELEGRAM_* variables were assigned at import and
\* stay as they are.
setenv(value) ==
    /\ pc \in {"idle", "loop"}
    /\ environ.SEND_RESOLVED_ALERTS # value
    /\ environ' = [environ EXCEPT !.SEND_RESOLVED_ALERTS = value]
    /\ UNCHANGED <<start_environ, TELEGRAM_ENABLED, TELEGRAM_BOT_TOKEN, TELEGRAM_CHAT_IDS,
                   template_dir, pc, body, data, alert_index, template, message,
                   chat_index, success, attempts, results, response, other>>

EnvNext ==
    \/ Next
    \/ \E value \in {Absent, Str(<<"t", "r", "u", "e">>)} : setenv(value)

\* The process starts with one chat id and either setting of SEND_RESOLVED_ALERTS.
EnvInit ==
    /\ Init
    /\ start_environ \in {Env(Absent, BotToken, Str(JoinIds(1)), send_resolved) :
                            send_resolved \in {Absent, Str(<<"T", "r", "u", "e">>)}}

EnvSpec == EnvInit /\ [][EnvNext]_vars

\* ------------------------------------------------------- concurrent calls
\* The local variables of the running call of webhook().
Locals ==
    [pc |-> pc, body |-> body, data |-> data, alert_index |-> alert_index,
     template |-> template, message |-> message, chat_index |-> chat_index,
     success |-> success, attempts |-> attempts, results |-> results,
     response |-> response]

\* A switch that leaves `message` where it is, as if it were a variable of
\* the module that both calls write.
Switch_SharedMessage ==
    /\ other' = Locals
    /\ pc' = other.pc
    /\ body' = other.body
    /\ data' = other.data
    /\ alert_index' = other.alert_index
    /\ template' = other.template
    /\ message' = message
    /\ chat_index' = other.chat_index
    /\ success' = other.success
    /\ attempts' = other.attempts
    /\ results' = other.results
    /\ response' = other.response
    /\ UNCHANGED <<start_environ, environ, TELEGRAM_ENABLED, TELEGRAM_BOT_TOKEN,
                   TELEGRAM_CHAT_IDS, template_dir>>

\* The server runs two calls of webhook() in two threads: the running one is
\* put aside with its local variables and the other one goes on with its own.
\* The variables of the module, the environment and the template files are
\* the same for both.
Switch ==
    /\ other' = Locals
    /\ pc' = other.pc
    /\ body' = other.body
    /\ data' = other.data
    /\ alert_index' = other.alert_index
    /\ template' = other.template
    /\ message' = other.message
    /\ chat_index' = other.chat_index
    /\ success' = other.success
    /\ attempts' = other.attempts
    /\ results' = other.results
    /\ response' = other.response
    /\ UNCHANGED <<start_environ, environ, TELEGRAM_ENABLED, TELEGRAM_BOT_TOKEN,
                   TELEGRAM_CHAT_IDS, template_dir>>

\* The batches the two calls are made with: one firing alert; two alerts; a
\* resolved batch.
ConcurrentRequests ==
    {Request("json", JsonObject(Str(<<"f", "i", "r", "i", "n", "g">>), Str(<<AlertFiring>>))),
     Request("json", JsonObject(Str(<<"f", "i", "r", "i", "n", "g">>), Str(<<AlertResolved, AlertFiring>>))),
     Request("json", JsonObject(Str(<<"r", "e", "s", "o", "l", "v", "e", "d">>), Str(<<AlertFiring>>)))}

\* The process has one chat id, and sends firing alerts only.
ConcurrentInit ==
    /\ Init
    /\ start_environ = Env(Absent, BotToken, Str(JoinIds(1)), Absent)

ConcurrentNext ==
    \/ pc = "idle" /\ \E request \in ConcurrentRequests : \E json \in get_json(request) :
                        webhook_begin(request, json)
    \/ webhook_alert
    \/ pc = "post" /\ \E answer \in Answers : post_markdown(answer)
    \/ pc = "post_plain" /\ \E answer \in Answers : post_plain(answer)
    \/ webhook_logs
    \/ webhook_return
    \/ Switch

ConcurrentSpec == ConcurrentInit /\ [][ConcurrentNext]_vars

\* ------------------------------------------- one alert, resolved and rendered
\* The alert names of the alerts below: the name of a built-in template,
\* names that hold one keyword or two in several letter cases, a name that
\* holds none, and a name shaped like a placeholder.
SampleNames ==
    {<<"H", "i", "g", "h", "T", "e", "m", "p", "e", "r", "a", "t", "u", "r", "e">>, <<"G", "p", "u", "T", "e", "m", "p", "e", "r", "a", "t", "u", "r",
                            "e">>, <<"c", "p", "u", "_", "g", "p", "u", "_", "l", "o", "a", "d">>, <<"g", "p", "u", "_", "r", "a", "m">>,
     <<"c", "o", "r", "e", "_", "i", "m", "b", "a", "l", "a", "n", "c", "e">>, <<"C", "o", "r", "e", "L", "o", "a", "d">>, <<"r", "a", "m", "_", "f", "u", "l", "l">>, <<"D", "i", "s", "k", "F", "u", "l", "l">>, <<"{", "{", " ", "s", "t", "a", "t", "u", "s", " ", "}", "}">>}

\* The alert_type labels: none, empty, one with a built-in template, one without.
SampleTypes == {Absent, Str(<<>>), Str(<<"g", "p", "u">>), Str(<<"d", "i", "s", "k">>)}

NoLabels == Labels(Absent, Absent, Absent, Absent, Absent)
NoAnnotations == Annotations(Absent, Absent, Absent)

AnnotationsPercent == Annotations(Str(<<"G", "P", "U", " ", "u", "s", "a", "g", "e", " ", "i", "s",
                                        " ", "9", "2", "%", " ", "o", "n", " ", "d", "e", "v", "i",
                                        "c", "e", " ", "0">>), Absent, Absent)
AnnotationsSpaced == Annotations(Absent, Str(<<"c", "o", "r", "e", " ", "l", "o", "a", "d", " ", "b", "a",
                                               "c", "k", " ", "a", "t", " ", "4", "0", " ", "%">>), Absent)
AnnotationsValue == Annotations(Str(<<"t", "e", "m", "p", "e", "r", "a", "t", "u", "r", "e", " ",
                                      "i", "s", " ", "8", "5", "°", "C">>), Absent, Str(<<"9", "7">>))
AnnotationsFraction == Annotations(Str(<<"c", "l", "o", "c", "k", " ", "3", " ", "a", "t", " ", "1",
                                         ".", "5", "m", "h", "z">>), Str(<<"c", "l", "o", "c", "k">>), Absent)
AnnotationsPlaceholder ==
    Annotations(Str(<<"{", "{", " ", "a", "l", "e", "r", "t", "n", "a", "m", "e", " ", "}",
                      "}", " ", "a", "n", "d", " ", "{", "{", " ", "z", "z", "z", " ", "}",
                      "}">>), Absent, Absent)

SampleAnnotations ==
    {NoAnnotations, AnnotationsPercent, AnnotationsSpaced, AnnotationsValue,
     AnnotationsFraction, AnnotationsPlaceholder}

\* startsAt: 6 fraction digits, none, 9 (as Alertmanager writes them), and no date
StartsAtMicros == <<"2", "0", "2", "4", "-", "0", "3", "-", "0", "1", "T", "1", "2", ":", "0",
                    "0", ":", "0", "0", ".", "1", "2", "3", "4", "5", "6", "Z">>
StartsAtSeconds == <<"2", "0", "2", "4", "-", "0", "3", "-", "0", "1", "T", "1", "2", ":", "0",
                     "0", ":", "0", "0", "Z">>
StartsAtNanos == <<"2", "0", "2", "4", "-", "0", "3", "-", "0", "1", "T", "1", "2", ":", "0",
                   "0", ":", "0", "0", ".", "1", "2", "3", "4", "5", "6", "7", "8", "9", "Z">>
StartsAtNoDate == <<"n", "o", "t", "-", "a", "-", "d", "a", "t", "e">>

SampleStartsAt ==
    {Absent, Str(StartsAtMicros), Str(StartsAtSeconds), Str(StartsAtNanos),
     Str(StartsAtNoDate)}

SampleLabels ==
    {NoLabels,
     Labels(Str(<<"D", "i", "s", "k", "F", "u", "l", "l">>), Str(<<"n", "o", "d", "e", "_", "1">>), Str(<<"n", "o", "d", "e", "_", "9">>), Str(<<"c", "r", "i", "t", "i", "c", "a", "l">>), Absent),
     Labels(Str(<<"{", "{", " ", "s", "t", "a", "t", "u", "s", " ", "}", "}">>), Absent, Str(<<"n", "o", "d", "e", "_", "2">>), Absent, Absent)}

\* The alerts that are resolved and rendered one by one: every name with every
\* alert_type label, every labels record with every annotations record and
\* startsAt, and an alert render_template raises on.
RenderAlerts ==
    {Alert(Str(<<"f", "i", "r", "i", "n", "g">>), Str(StartsAtMicros),
           Labels(Str(name), Str(<<"n", "o", "d", "e", "_", "1">>), Absent, Str(<<"w", "a", "r", "n", "i", "n", "g">>), type),
           AnnotationsPercent) : name \in SampleNames, type \in SampleTypes}
    \cup {Alert(own_status, startsAt, labels, annotations) :
            own_status \in {Absent, Str(<<"f", "i", "r", "i", "n", "g">>)}, startsAt \in SampleStartsAt,
            labels \in SampleLabels, annotations \in SampleAnnotations}
    \cup {AlertNullStatus}

\* An external template with placeholders render_template does not know,
\* nested and unclosed braces.
TemplateExternal ==
    <<"{", "{", " ", "f", "o", "o", " ", "}", "}", " ", "{", "{", "a", "l", "e", "r", "t", "n",
      "a", "m", "e", "}", "}", " ", "[", "{", "{", " ", "a", "l", "e", "r", "t", "n", "a", "m",
      "e", " ", "}", "}", "]", " ", "{", "{", " ", "a", "{", "{", " ", "b", " ", "}", "}", " ",
      "}", "}", " ", "{", "{", "}", "}", " ", "{", "{", " ", "x", " ", "}", "y", " ", "}", "}",
      "\n", "{", "{", " ", "d", "e", "s", "c", "r", "i", "p", "t", "i", "o", "n", " ", "}",
      "}", " ", "/", " ", "{", "{", " ", "s", "u", "m", "m", "a", "r", "y", " ", "}", "}", " ",
      "{", "{", " ", "s", "t", "a", "t", "u", "s", "\n", " ", "}", "}", " ", "{", "{", " ",
      "i", "n", "s", "t", "a", "n", "c", "e", " ", "}", "}", "\n">>

\* The template directories of the alerts above: empty, or with a template
\* for DiskFull and one that cannot be read.
RenderTemplateDirs ==
    {{}, {[name |-> <<"D", "i", "s", "k", "F", "u", "l", "l", "_", "d", "e", "f", "a", "u",
                      "l", "t", ".", "t", "m", "p", "l">>, readable |-> TRUE,
           content |-> TemplateExternal],
          [name |-> <<"G", "p", "u", "T", "e", "m", "p", "e", "r", "a", "t", "u", "r", "e",
                      "_", "t", "e", "m", "p", "e", "r", "a", "t", "u", "r", "e", ".", "t",
                      "m", "p", "l">>, readable |-> FALSE,
           content |-> <<>>]}}

\* One alert of a batch of one, at the head of a turn of webhook()'s loop.
RenderInit ==
    /\ start_environ = Env(Absent, BotToken, Str(JoinIds(1)), Absent)
    /\ environ = start_environ
    /\ TELEGRAM_ENABLED = ParseEnabled(environ)
    /\ TELEGRAM_BOT_TOKEN = ParseBotToken(environ)
    /\ TELEGRAM_CHAT_IDS = ParseChatIds(environ)
    /\ template_dir \in RenderTemplateDirs
    /\ pc = "resolve"
    /\ body = "json"
    /\ \E alert \in RenderAlerts : data = JsonObject(Str(<<"f", "i", "r", "i", "n", "g">>), Str(<<alert>>))
    /\ alert_index = 1
    /\ template = <<>>
    /\ message = <<>>
    /\ chat_index = 0
    /\ success = TRUE
    /\ attempts = <<>>
    /\ results = <<>>
    /\ response = NoResponse
    /\ other = IdleLocals

\* webhook(): the template type of the alert and load_template
resolve_template ==
    /\ pc = "resolve"
    /\ LET alert == alerts[alert_index] IN
       IF /\ ~Truthy(Get(alert.labels.alert_type, Str(<<>>)))
          /\ ~IsStr(Get(alert.labels.alertname, Str(<<"U", "n", "k", "n", "o", "w", "n">>)))
       THEN pc' = "raised" /\ UNCHANGED template
       ELSE /\ template' = ResolveTemplate(template_dir, alert)
            /\ pc' = "render"
    /\ UNCHANGED <<config, body, data, alert_index, message, chat_index, success,
                   attempts, results, response>>

\* webhook(): message = render_template(template, alert)
render_message ==
    /\ pc = "render"
    /\ LET alert == alerts[alert_index] IN
       IF RenderRaises(alert)
       THEN pc' = "raised" /\ UNCHANGED message
       ELSE \E now \in Clock : \E text \in render_template(template, alert, now) :
                /\ message' = text
                /\ pc' = "rendered"
    /\ UNCHANGED <<config, body, data, alert_index, template, chat_index, success,
                   attempts, results, response>>

RenderNext == resolve_template \/ render_message

RenderSpec == RenderInit /\ [][RenderNext]_vars

\* ------------------------------------------------------------------ claims
\* The configuration is complete: send_telegram_message reaches its loop.
Complete == ~ConfigGap(TELEGRAM_ENABLED, TELEGRAM_BOT_TOKEN, TELEGRAM_CHAT_IDS)

\* The requests of `attempts` that went to the chat id at position t of the list.
AttemptsTo(t) ==
    {n \in 1..Len(attempts) : attempts[n].data.chat_id = TELEGRAM_CHAT_IDS[t]}

\* The request at position n of `attempts` is a first request to its chat.
IsFirst(n) == attempts[n].data.parse_mode = "Markdown"

\* C1: with SEND_RESOLVED_ALERTS not "true", an alert of the batch is skipped
\* (no request to any chat) if and only if its own status is "resolved".
C1_SkipIsPerAlert ==
    (Complete /\ OnlyFiring(environ)) =>
        \A k \in 1..Len(results) :
            (results[k] = "skipped")
                <=> (Get(alerts[k].status, Str(<<"u", "n", "k", "n", "o", "w", "n">>)) = Str(<<"r", "e", "s", "o", "l", "v", "e", "d">>))

\* C2: when send_telegram_message returns under a complete configuration,
\* every chat id of the list got a first request (parse_mode Markdown),
\* whatever the answers for the chat ids before it were.
C2_EveryChatAttempted ==
    (pc = "returned" /\ Complete) =>
        \A t \in 1..Len(TELEGRAM_CHAT_IDS) : \E n \in AttemptsTo(t) : IsFirst(n)

\* C2 witness: the first chat's request ended in a network error and the
\* second chat's request was sent all the same.
C2_Witness ==
    /\ pc = "returned"
    /\ Len(TELEGRAM_CHAT_IDS) >= 2
    /\ Len(attempts) = 2
    /\ attempts[1].data.chat_id = TELEGRAM_CHAT_IDS[1]
    /\ attempts[1].answer = AnswerNetworkError
    /\ attempts[2].data.chat_id = TELEGRAM_CHAT_IDS[2]
    /\ attempts[2].answer = AnswerSent
    /\ ~success

\* The provider answered the request (requests raised nothing) with a
\* rejection whose description mentions parsing, whatever the status code.
FormattingRejection(answer) ==
    answer.error = "none" /\ ~answer.ok /\ MentionsParse(answer)

\* The request got no delivery, for another reason than a formatting rejection:
\* network error, timeout, HTTP error status, API error.
OtherFailure(answer) ==
    /\ ~FormattingRejection(answer)
    /\ \/ answer.error # "none"
       \/ answer.status_code \notin 200..299
       \/ ~answer.ok

\* The requests of `attempts` that went to the same chat as the one at position n.
SameChat(n) ==
    {k \in 1..Len(attempts) : attempts[k].data.chat_id = attempts[n].data.chat_id}

\* The text still holds a markup character.
HasMarkup(text) == \E i \in 1..Len(text) : text[i] \in {"*", "_"}

\* The last request to every chat id of the list was answered ok.
EveryChatDelivered ==
    \A t \in 1..Len(TELEGRAM_CHAT_IDS) :
        /\ AttemptsTo(t) # {}
        /\ LET last == CHOOSE n \in AttemptsTo(t) : \A k \in AttemptsTo(t) : k <= n
           IN attempts[last].answer = AnswerSent

\* C3: when send_telegram_message returns, every first request that the
\* provider rejected for formatting, under whatever status code, is followed
\* by exactly one more request to the same chat, without parse_mode and with
\* the markup characters stripped; and when every chat ended up delivered
\* the call returns True.
C3_FormattingFallback ==
    (pc = "returned" /\ Complete) =>
        /\ \A n \in 1..Len(attempts) :
              (IsFirst(n) /\ FormattingRejection(attempts[n].answer)) =>
                  /\ SameChat(n) = {n, n + 1}
                  /\ n + 1 <= Len(attempts)
                  /\ attempts[n + 1].data.parse_mode = "none"
                  /\ ~HasMarkup(attempts[n + 1].data.text)
        /\ EveryChatDelivered => success

\* C4: when send_telegram_message returns, every first request that failed
\* for another reason than a formatting rejection (network error, timeout
\* after RequestTimeout, HTTP error status, API error that does not mention
\* parsing) is the only request made to its chat, and the call returns False.
C4_NoRetryOnOtherFailure ==
    (pc = "returned" /\ Complete) =>
        \A n \in 1..Len(attempts) :
            (IsFirst(n) /\ OtherFailure(attempts[n].answer)) =>
                /\ SameChat(n) = {n}
                /\ attempts[n].data.timeout = RequestTimeout
                /\ ~success

\* C4 witness: one chat's request timed out and the other's got an API error
\* that does not mention parsing; two requests in all.
C4_Witness ==
    /\ pc = "returned"
    /\ Len(attempts) = 2
    /\ attempts[1].answer = AnswerTimeout
    /\ attempts[2].answer = AnswerApiError
    /\ attempts[1].data.chat_id # attempts[2].data.chat_id
    /\ ~success

\* Under a configuration gap send_telegram_message makes no request and
\* returns False.
NoRequestUnderGap ==
    ~Complete =>
        /\ attempts = <<>>
        /\ pc \notin {"post", "post_plain"}
        /\ pc = "returned" => ~success

\* webhook() got past `if not data` with an object: the batch is accepted.
Accepted == data.kind = "object" /\ ~DataIsFalsy(data)

\* C5: under a configuration gap (disabled, no token, no chat ids), for every
\* alert of every batch send_telegram_message makes no request and returns
\* False, and webhook() still returns its success response.
C5_GapStillSucceeds ==
    /\ NoRequestUnderGap
    /\ (~Complete /\ Accepted /\ pc = "done") => response = ProcessedResponse(Len(alerts))

\* C6: a request whose body is missing or does not parse as JSON is answered
\* with a 4xx status and an error body, and nothing is resolved, rendered or sent.
C6_MalformedIsClientError ==
    (pc = "done" /\ body \in {"missing", "unparsable"}) =>
        /\ response.code \in 400..499
        /\ response.body = "error"
        /\ template = <<>> /\ message = <<>> /\ attempts = <<>> /\ results = <<>>

\* C7: a request whose body is present and parses as JSON is answered with
\* the success response {status, alerts: n}, n the number of alerts of the body.
C7_ParsableAlwaysSucceeds ==
    (pc = "done" /\ body = "json") => response = ProcessedResponse(Len(alerts))

\* C8: once a batch is accepted, webhook() returns only after every alert of
\* it was skipped or had its message rendered and send_telegram_message called.
C8_RunToCompletion ==
    (pc = "done" /\ Accepted) =>
        /\ Len(results) = Len(alerts)
        /\ response = ProcessedResponse(Len(alerts))

\* The number of alerts of the batch recorded as `kind`.
Count(kind) == Cardinality({k \in 1..Len(results) : results[k] = kind})

\* C9: the outcomes recorded for a processed batch count each chat's delivery
\* on its own: sent + failed = (alerts not skipped) x (chat ids).
C9_PerTargetCounts ==
    (pc = "done" /\ Complete /\ response.code = 200) =>
        Count("sent") + Count("failed")
            = (Len(alerts) - Count("skipped")) * Len(TELEGRAM_CHAT_IDS)

\* The categories whose keyword the name holds, in any letter case, by the
\* template of the category.
KeywordTemplates(name) ==
    {c.template : c \in {k \in {[keyword |-> <<"t", "e", "m", "p", "e", "r", "a", "t", "u", "r", "e">>, template |-> TemplateHighTemperature],
                                [keyword |-> <<"c", "p", "u">>, template |-> TemplateCPUCoreImbalance],
                                [keyword |-> <<"c", "o", "r", "e">>, template |-> TemplateCPUCoreImbalance],
                                [keyword |-> <<"g", "p", "u">>, template |-> TemplateHighGPUUsage],
                                [keyword |-> <<"r", "a", "m">>, template |-> TemplateHighRAMUsage]} :
                            Contains(k.keyword, lower(name))}}

\* C10: with no template file and no alert_type label, the template resolved
\* for an alert whose name holds a category keyword in any letter case is
\* that category's template, never the generic one.
C10_KeywordResolvesCategory ==
    (pc \in {"post", "post_plain", "returned"} /\ template_dir = {}) =>
        LET labels == alerts[alert_index].labels
            name == Get(labels.alertname, Str(<<"U", "n", "k", "n", "o", "w", "n">>))
        IN (labels.alert_type = Absent /\ IsStr(name) /\ KeywordTemplates(name.val) # {}) =>
               /\ template \in KeywordTemplates(name.val)
               /\ template # TemplateGeneric

\* The alert the loop is at.
TheAlert == alerts[alert_index]

\* The lookup order the claim fixes: the template of the exact alert name,
\* else that of the alert_type label, else that of the first category, in the
\* order temperature, cpu/core, gpu, ram, whose keyword the name holds in any
\* letter case, else the generic one.  A label with no template is passed over.
LookupOrder(name, label) ==
    LET exact == {[n |-> <<"H", "i", "g", "h", "T", "e", "m", "p", "e", "r", "a", "t", "u",
                           "r", "e">>, t |-> TemplateHighTemperature],
                  [n |-> <<"C", "P", "U", "C", "o", "r", "e", "I", "m", "b", "a", "l", "a",
                           "n", "c", "e">>, t |-> TemplateCPUCoreImbalance],
                  [n |-> <<"H", "i", "g", "h", "G", "P", "U", "U", "s", "a", "g", "e">>, t |-> TemplateHighGPUUsage],
                  [n |-> <<"H", "i", "g", "h", "R", "A", "M", "U", "s", "a", "g", "e">>, t |-> TemplateHighRAMUsage]}
        category == {[n |-> <<"t", "e", "m", "p", "e", "r", "a", "t", "u", "r", "e">>, t |-> TemplateHighTemperature],
                     [n |-> <<"c", "p", "u">>, t |-> TemplateCPUCoreImbalance],
                     [n |-> <<"g", "p", "u">>, t |-> TemplateHighGPUUsage],
                     [n |-> <<"r", "a", "m">>, t |-> TemplateHighRAMUsage]}
        has(keyword) == Contains(keyword, lower(name))
    IN IF \E e \in exact : e.n = name
       THEN (CHOOSE e \in exact : e.n = name).t
       ELSE IF \E c \in category : Str(c.n) = label
       THEN (CHOOSE c \in category : Str(c.n) = label).t
       ELSE IF has(<<"t", "e", "m", "p", "e", "r", "a", "t", "u", "r", "e">>) THEN TemplateHighTemperature
       ELSE IF has(<<"c", "p", "u">>) \/ has(<<"c", "o", "r", "e">>) THEN TemplateCPUCoreImbalance
       ELSE IF has(<<"g", "p", "u">>) THEN TemplateHighGPUUsage
       ELSE IF has(<<"r", "a", "m">>) THEN TemplateHighRAMUsage
       ELSE TemplateGeneric

\* C11: with no template file, the template resolved for an alert is the one
\* of the lookup order: exact name, else alert_type label, else the category
\* inferred from the name (temperature > cpu/core > gpu > ram, any letter
\* case), else generic; a label with no template falls through to inference.
C11_LookupOrder ==
    (pc \in {"render", "rendered"} /\ template_dir = {}) =>
        LET name == Get(TheAlert.labels.alertname, Str(<<"U", "n", "k", "n", "o", "w", "n">>))
        IN IsStr(name) => template = LookupOrder(name.val, TheAlert.labels.alert_type)

\* The text holds a placeholder token: "{{", a name of one character or more
\* none of which is "}", and "}}".
HasToken(s) ==
    \E i \in {p \in 1..(Len(s) - 1) : s[p] = "{" /\ s[p + 1] = "{"} :
        \E j \in {p \in 1..(Len(s) - 1) : s[p] = "}" /\ s[p + 1] = "}"} :
            /\ j >= i + 3
            /\ \A k \in (i + 2)..(j - 1) : s[k] # "}"

\* C12: whatever the template (built-in, generic, external with unknown
\* placeholder names) and the alert (its values shaped like placeholders or
\* not), the rendered message holds no placeholder token.
C12_NoTokenLeft == (pc = "rendered") => ~HasToken(message)

\* C12 witness: the external template rendered for an alert whose description
\* is shaped like placeholders: every token, known or not, came out as a
\* value or as N/A.
C12_Witness ==
    /\ pc = "rendered"
    /\ template = TemplateExternal
    /\ TheAlert.annotations = AnnotationsPlaceholder
    /\ message = <<"N", "/", "A", " ", "N", "/", "A", " ", "[", "D", "i", "s", "k", "F", "u",
                   "l", "l", "]", " ", "N", "/", "A", " ", "}", "}", " ", "{", "{", "}", "}",
                   " ", "{", "{", " ", "x", " ", "}", "y", " ", "}", "}", "\n", "N", "/", "A",
                   " ", "a", "n", "d", " ", "N", "/", "A", " ", "/", " ", " ", "N", "/", "A",
                   " ", "n", "o", "d", "e", "_", "1">>

\* The rendered message holds the text.
Shows(text) == Contains(text, message)

\* The alert has empty labels and empty annotations.
EmptyRecords == TheAlert.labels = NoLabels /\ TheAlert.annotations = NoAnnotations

\* The generic template was rendered: every field has a line of its own.
RenderedGeneric == pc = "rendered" /\ template = TemplateGeneric

\* The alert with empty labels and annotations raises nothing and renders
\* with the given default for the instance.
DefaultsWith(instance) ==
    EmptyRecords =>
        /\ pc # "raised"
        /\ RenderedGeneric =>
              /\ Shows(<<"*", "A", "l", "e", "r", "t", ":", " ", "U", "n", "k", "n", "o", "w",
                         "n", "*", "\n">>)
              /\ Shows(<<"*", "I", "n", "s", "t", "a", "n", "c", "e", ":", "*", " ">> \o instance \o <<"\n">>)
              /\ Shows(<<"*", "S", "e", "v", "e", "r", "i", "t", "y", ":", "*", " ", "U", "N",
                         "K", "N", "O", "W", "N", "\n">>)
              /\ Shows(<<"*", "V", "a", "l", "u", "e", ":", "*", " ", "N", "/", "A", "\n">>)
              /\ Shows(<<"\n", "\n", "N", "o", " ", "d", "e", "s", "c", "r", "i", "p", "t",
                         "i", "o", "n", "\n", "\n">>)

\* The instance is the label "instance", else "exported_instance"; the
\* description is the annotation "description", else "summary".
FieldsFallBack ==
    RenderedGeneric =>
        LET labels == TheAlert.labels
            annotations == TheAlert.annotations
        IN /\ IsStr(labels.instance) => Shows(<<"*", "I", "n", "s", "t", "a", "n", "c", "e", ":", "*", " ">> \o labels.instance.val \o <<"\n">>)
           /\ (labels.instance = Absent /\ IsStr(labels.exported_instance)) =>
                 Shows(<<"*", "I", "n", "s", "t", "a", "n", "c", "e", ":", "*", " ">> \o labels.exported_instance.val \o <<"\n">>)
           /\ (IsStr(annotations.description) /\ ~HasToken(annotations.description.val)) =>
                 Shows(<<"\n", "\n">> \o annotations.description.val \o <<"\n", "\n">>)
           /\ (annotations.description = Absent /\ IsStr(annotations.summary)) =>
                 Shows(<<"\n", "\n">> \o annotations.summary.val \o <<"\n", "\n">>)

\* C13 as stated: for an alert with empty labels and annotations nothing is
\* raised and the fields are name "Unknown", instance "unknown", severity
\* "UNKNOWN", description "No description", value "N/A"; instance and
\* description fall back as given.
C13_DefaultsAsStated == DefaultsWith(<<"u", "n", "k", "n", "o", "w", "n">>) /\ FieldsFallBack

\* C13 amended: the same with the instance defaulting to "Unknown".
C13_Defaults == DefaultsWith(<<"U", "n", "k", "n", "o", "w", "n">>) /\ FieldsFallBack

\* C13 witness: the alert with no field at all, rendered with the generic template.
C13_Witness ==
    /\ pc = "rendered"
    /\ TheAlert = Alert(Absent, Absent, NoLabels, NoAnnotations)
    /\ message = <<"*", "A", "l", "e", "r", "t", ":", " ", "U", "n", "k", "n", "o", "w", "n",
                   "*", "\n", "\n", "*", "I", "n", "s", "t", "a", "n", "c", "e", ":", "*", " ",
                   "U", "n", "k", "n", "o", "w", "n", "\n", "*", "S", "e", "v", "e", "r", "i",
                   "t", "y", ":", "*", " ", "U", "N", "K", "N", "O", "W", "N", "\n", "*", "V",
                   "a", "l", "u", "e", ":", "*", " ", "N", "/", "A", "\n", "*", "T", "i", "m",
                   "e", ":", "*", " ", "2", "0", "2", "4", "-", "0", "3", "-", "0", "1", " ",
                   "1", "2", ":", "0", "0", ":", "0", "5", " ", "U", "T", "C", "\n", "\n", "N",
                   "o", " ", "d", "e", "s", "c", "r", "i", "p", "t", "i", "o", "n", "\n", "\n",
                   "*", "S", "t", "a", "t", "u", "s", ":", "*", " ", "U", "N", "K", "N", "O",
                   "W", "N">>

\* The generic template was rendered for the annotations and shows the value.
ValueOf(annotations, value) ==
    (RenderedGeneric /\ TheAlert.annotations = annotations) =>
        Shows(<<"*", "V", "a", "l", "u", "e", ":", "*", " ">> \o value \o <<"\n">>)

\* The values both readings of the claim agree on: annotations['value']
\* verbatim whatever the description says, "<number><unit>" of the first
\* number that a unit follows at once, N/A when there is no number with a
\* unit; and nothing is raised for any of these annotations.
ValueSelection ==
    /\ ValueOf(AnnotationsValue, <<"9", "7">>)
    /\ ValueOf(AnnotationsPercent, <<"9", "2", "%">>)
    /\ ValueOf(AnnotationsFraction, <<"1", ".", "5", "m", "h", "z">>)
    /\ ValueOf(AnnotationsPlaceholder, <<"N", "/", "A">>)
    /\ ValueOf(NoAnnotations, <<"N", "/", "A">>)
    /\ (TheAlert.annotations \in SampleAnnotations /\ pc # "resolve") => pc # "raised"

\* C14 as stated: the unit follows the number immediately, so "core load back
\* at 40 %", where a space parts them, has the value N/A.
C14_ValueAsStated == ValueSelection /\ ValueOf(AnnotationsSpaced, <<"N", "/", "A">>)

\* C14 amended: whitespace may part the number and the unit, and is dropped:
\* "core load back at 40 %" has the value "40%".
C14_Value == ValueSelection /\ ValueOf(AnnotationsSpaced, <<"4", "0", "%">>)

\* C14 witness: the description holds "85°C" and annotations['value'] is "97":
\* the message shows 97.
C14_Witness ==
    /\ RenderedGeneric
    /\ TheAlert.annotations = AnnotationsValue
    /\ Shows(<<"*", "V", "a", "l", "u", "e", ":", "*", " ", "9", "7", "\n">>)
    /\ Shows(<<"t", "e", "m", "p", "e", "r", "a", "t", "u", "r", "e", " ", "i", "s", " ", "8",
               "5", "°", "C">>)

\* The generic template was rendered for the startsAt and shows the time.
TimeOf(startsAt, time) ==
    (RenderedGeneric /\ TheAlert.startsAt = Str(startsAt)) =>
        Shows(<<"*", "T", "i", "m", "e", ":", "*", " ">> \o time \o <<"\n">>)

\* C15: a startsAt that is ISO-8601 with a trailing Z and a fraction of any
\* length (none, 6 digits, 9 digits) is shown as "YYYY-MM-DD HH:MM:SS UTC",
\* and one that is no date is shown as it is.
C15_TimeDisplay ==
    /\ TimeOf(StartsAtMicros, <<"2", "0", "2", "4", "-", "0", "3", "-", "0", "1", " ", "1",
                                "2", ":", "0", "0", ":", "0", "0", " ", "U", "T", "C">>)
    /\ TimeOf(StartsAtSeconds, <<"2", "0", "2", "4", "-", "0", "3", "-", "0", "1", " ", "1",
                                 "2", ":", "0", "0", ":", "0", "0", " ", "U", "T", "C">>)
    /\ TimeOf(StartsAtNanos, <<"2", "0", "2", "4", "-", "0", "3", "-", "0", "1", " ", "1", "2",
                               ":", "0", "0", ":", "0", "0", " ", "U", "T", "C">>)
    /\ TimeOf(StartsAtNoDate, StartsAtNoDate)

\* C16: SEND_RESOLVED_ALERTS is read once at process start: every alert of a
\* batch is skipped, or not, by the value the environment had at start,
\* whatever the environment has become since.
C16_SkipUsesStartValue ==
    \A k \in 1..Len(results) :
        (results[k] = "skipped") <=> SkipAlert(status, start_environ)

\* The position in TELEGRAM_CHAT_IDS of the chat the request at n went to.
Position(n) ==
    CHOOSE t \in 1..Len(TELEGRAM_CHAT_IDS) : TELEGRAM_CHAT_IDS[t] = attempts[n].data.chat_id

\* The requests made for the alert the loop is at: the first goes to the first
\* chat id; each next one is the first request to the next chat id, or the
\* request without parse_mode to the same chat, directly after its first request.
ChatOrder ==
    \A n \in 1..Len(attempts) :
        /\ \E t \in 1..Len(TELEGRAM_CHAT_IDS) : TELEGRAM_CHAT_IDS[t] = attempts[n].data.chat_id
        /\ IF n = 1 THEN IsFirst(n) /\ Position(n) = 1
           ELSE \/ IsFirst(n) /\ Position(n) = Position(n - 1) + 1
                \/ ~IsFirst(n) /\ IsFirst(n - 1) /\ Position(n) = Position(n - 1)

\* A step: the loop never goes back to an earlier alert; a request is made
\* for the alert the loop is at, with its message, and is added after the
\* requests already made for it; the loop leaves an alert with its requests
\* all made, and comes to the next one with none made yet.
AlertOrder ==
    /\ alert_index' >= alert_index
    /\ attempts' # attempts =>
          \/ /\ alert_index' = alert_index
             /\ Len(attempts') = Len(attempts) + 1
             /\ SubSeq(attempts', 1, Len(attempts)) = attempts
             /\ attempts'[Len(attempts')].data.text \in {message, PlainText(message)}
             /\ message' = message
          \/ /\ alert_index' = alert_index + 1
             /\ pc = "returned"
             /\ attempts' = <<>>
    /\ alert_index' # alert_index => attempts' = <<>>

\* C17: within one call of webhook() the alerts are taken in the order of
\* the batch and every request of an alert is made before any request of a
\* later one; within an alert the chats are taken in the order of
\* TELEGRAM_CHAT_IDS, and the request without parse_mode comes directly
\* after the first request to its chat, before the next chat's.
C17_Ordering == [](ChatOrder) /\ [][AlertOrder]_vars

\* C17 witness: the second alert of a batch, after the first was sent: the
\* first chat's request was rejected for formatting and retried, then the
\* second chat got its request.
C17_Witness ==
    /\ pc = "returned"
    /\ alert_index = 2
    /\ results = <<"sent">>
    /\ Len(attempts) = 3
    /\ IsFirst(1) /\ ~IsFirst(2) /\ IsFirst(3)
    /\ Position(1) = 1 /\ Position(2) = 1 /\ Position(3) = 2

\* The alerts and the status of the batch a call was made with.
AlertsOf(call) ==
    IF call.data.kind = "object" THEN Get(call.data.alerts, Str(<<>>)).val ELSE <<>>

StatusOf(call) ==
    IF call.data.kind = "object" THEN Get(call.data.status, Str(<<"u", "n", "k", "n", "o", "w", "n">>)) ELSE Absent

\* The requests a call makes for one message when it runs alone and the
\* provider gives these answers: chat after chat from position t of the
\* list, each with parse_mode Markdown first and, when that asks for the
\* retry, once more as plain text.
RECURSIVE AttemptsAlone(_, _, _, _)
AttemptsAlone(answers, text, t, first) ==
    IF answers = <<>> \/ t > Len(TELEGRAM_CHAT_IDS) THEN <<>>
    ELSE LET retry == first /\ FirstOutcome(Head(answers)) = "retry"
             sent == IF first THEN MarkdownData(TELEGRAM_CHAT_IDS[t], text)
                     ELSE PlainData(TELEGRAM_CHAT_IDS[t], text)
         IN <<[data |-> sent, answer |-> Head(answers)]>>
                \o AttemptsAlone(Tail(answers), text, IF retry THEN t ELSE t + 1, ~retry)

\* What send_telegram_message returns for these requests and answers when the
\* call runs alone: no first request failed, and every retry was delivered.
SuccessAlone(made) ==
    \A n \in 1..Len(made) :
        IF made[n].data.parse_mode = "Markdown"
        THEN FirstOutcome(made[n].answer) # "failed"
        ELSE RetryOutcome(made[n].answer) = "sent"

\* The local variables of a call are what its own batch and the answers to
\* its own requests make them when the call runs alone.
AsAlone(call) ==
    /\ call.pc \in {"post", "post_plain", "returned"} =>
          LET alert == AlertsOf(call)[call.alert_index] IN
          /\ call.template = ResolveTemplate(template_dir, alert)
          /\ \E now \in Clock : call.message \in render_template(call.template, alert, now)
          /\ call.attempts =
                AttemptsAlone([n \in 1..Len(call.attempts) |-> call.attempts[n].answer],
                              call.message, 1, TRUE)
          /\ Len(call.results) = call.alert_index - 1
    /\ call.pc = "returned" => (call.success <=> SuccessAlone(call.attempts))
    /\ \A k \in 1..Len(call.results) :
          /\ k <= Len(AlertsOf(call))
          /\ (call.results[k] = "skipped") <=> SkipAlert(StatusOf(call), environ)
    /\ (call.pc = "done" /\ call.response.code = 200) =>
          /\ call.response = ProcessedResponse(Len(AlertsOf(call)))
          /\ Len(call.results) = Len(AlertsOf(call))

\* A step of the running call leaves the other call's variables alone, and a
\* switch exchanges the two sets of local variables whole.
OtherUntouched ==
    \/ other' = other
    \/ other' = Locals /\ Locals' = other

\* No step changes what both calls read: the environment, the configuration
\* read from it and the template files.
SharedUnchanged ==
    UNCHANGED <<start_environ, environ, TELEGRAM_ENABLED, TELEGRAM_BOT_TOKEN,
                TELEGRAM_CHAT_IDS, template_dir>>

\* C18: with two calls of webhook() interleaved in any way, the requests of
\* each call (chat, text, retry), its results per alert and its response are
\* those of the call running alone on its own batch with the same answers;
\* no step of a call changes the other call's variables, the configuration
\* or the templates.
C18_NoInterference ==
    /\ [](AsAlone(Locals) /\ AsAlone(other))
    /\ [][OtherUntouched /\ SharedUnchanged]_vars

\* C18 witness: the running call is between its first request and its
\* retry, while the other call, made with a batch of two alerts, has the send
\* for its first alert returned: another batch, another message.
C18_Witness ==
    /\ pc = "post_plain"
    /\ Len(attempts) = 1
    /\ other.pc = "returned"
    /\ other.data # data
    /\ Len(AlertsOf(other)) = 2
    /\ other.alert_index = 1
    /\ other.attempts # <<>>
    /\ other.message # message

\* The provider took the message: the request raised nothing, the status
\* code is a success and the body says ok.
Delivered(answer) ==
    answer.error = "none" /\ answer.status_code \in 200..299 /\ answer.ok

\* The last request to every chat id of the list, the first one or the plain
\* one after it, was delivered.
EveryTargetDelivered ==
    \A t \in 1..Len(TELEGRAM_CHAT_IDS) :
        /\ AttemptsTo(t) # {}
        /\ \E last \in AttemptsTo(t) :
              /\ \A n \in AttemptsTo(t) : n <= last
              /\ Delivered(attempts[last].answer)

\* C19: send_telegram_message returns True if and only if Telegram is
\* enabled, a token and at least one chat id are configured and every chat id
\* was delivered, by its first request or by the plain one after it; one chat
\* that failed makes it False whatever the others did, and webhook() then
\* logs the alert as failed.
C19_ReturnValue ==
    /\ [](pc = "returned" => (success <=> (Complete /\ EveryTargetDelivered)))
    /\ [][(pc = "returned" /\ pc' = "loop") =>
              results' = Append(results, IF Complete /\ EveryTargetDelivered
                                         THEN "sent" ELSE "failed")]_vars

\* C19 witness: the first chat was delivered, the second was refused by the
\* API, and send_telegram_message has returned False.
C19_Witness ==
    /\ pc = "returned"
    /\ Len(TELEGRAM_CHAT_IDS) = 2
    /\ Len(attempts) = 2
    /\ attempts[1].data.chat_id = TELEGRAM_CHAT_IDS[1]
    /\ Delivered(attempts[1].answer)
    /\ attempts[2].data.chat_id = TELEGRAM_CHAT_IDS[2]
    /\ attempts[2].answer = AnswerApiError
    /\ ~success

====
